---- MODULE Spec2Model ----
(***************************************************************************)
(* Model of src/migrations/crud.py: the "Conductor API" user directory.    *)
(*                                                                         *)
(* State: the process configuration (API_KEY, ALLOWED), the committed      *)
(* contents of the users table, the store's id sequence and the sessions   *)
(* that have run their statement and not yet committed.  One action per    *)
(* route: api_key_guard, the CORS middleware, request validation and the   *)
(* handler up to the return of its statement; a read, a rejection and a    *)
(* failure end there with the response.  A write that got its row has a    *)
(* second action, its commit (or the commit's failure) and the response:   *)
(* the handlers run in worker threads, so other exchanges are served       *)
(* between the two.                                                        *)
(*                                                                         *)
(* req, resp, trace and before record the last exchange answered: the      *)
(* request, the response, what the exchange touched, and the committed     *)
(* table just before the step that answered it.                            *)
(*                                                                         *)
(* Text that the code parses (e-mail addresses) is a sequence of           *)
(* one-character strings; a table is a set of rows, which has no order.    *)
(***************************************************************************)
EXTENDS Integers, Sequences, FiniteSets, TLC

VARIABLES API_KEY, ALLOWED, users, id_seq, sessions, req, resp, trace, before

vars == <<API_KEY, ALLOWED, users, id_seq, sessions, req, resp, trace, before>>

\* Largest id the store's sequence hands out in the model.
MaxId == 2

\* Most sessions that stand between their statement and their commit at
\* one time.
MaxSessions == 2

\* Python's None (an unset environment variable, an absent header).
None == "None"

------------------------------------------------------------------------------
\* Inputs the requests are drawn from.

Keys == {None, "secret", "wrong"}

Origins == {None, "https://app.example", "https://evil.example"}

Names == {"", "Ada"}

EmailInputs ==
    { <<"a", "@", "b", ".", "c">>,
      <<"A", "@", "B", ".", "c">>,
      <<"a", ".", "b">>,
      <<"a", "@", "b">> }

\* Path ids: every id the sequence can hand out; one that was never handed
\* out, or whose row was deleted, is an id no row has.
PathIds == 1..MaxId

\* A JSON body {name, email}; wellformed is FALSE for a body that is not
\* such an object (here: the email field missing).
NoBody == [wellformed |-> FALSE, name |-> "", email |-> <<>>]

Malformed == [wellformed |-> FALSE, name |-> "Ada", email |-> <<>>]

\* One body for each address, the mixed-case one with the empty name, and
\* the malformed body.
Bodies ==
    {b \in [wellformed : {TRUE}, name : Names, email : EmailInputs] :
        (b.name = "") = (b.email = <<"A", "@", "B", ".", "c">>)}
    \cup {Malformed}

\* What the store does with the statement of this exchange: run it, raise
\* on the statement, or raise on the commit.
Faults == {"ok", "statement", "commit"}

------------------------------------------------------------------------------
\* pydantic EmailStr: syntax check and normalisation.

Lower(c) ==
    CASE c = "A" -> "a"
      [] c = "B" -> "b"
      [] OTHER -> c

AtPositions(s) == {i \in 1..Len(s) : s[i] = "@"}

IsDotAtom(s) ==
    /\ Len(s) > 0
    /\ s[1] # "."
    /\ s[Len(s)] # "."
    /\ \A i \in 1..Len(s) : s[i] # "@"
    /\ \A i \in 1..(Len(s) - 1) : ~(s[i] = "." /\ s[i + 1] = ".")

LocalPart(s) == SubSeq(s, 1, (CHOOSE i \in AtPositions(s) : TRUE) - 1)

DomainPart(s) == SubSeq(s, (CHOOSE i \in AtPositions(s) : TRUE) + 1, Len(s))

AcceptsAnything(s) == TRUE

IsEmail(s) ==
    /\ Cardinality(AtPositions(s)) = 1
    /\ IsDotAtom(LocalPart(s))
    /\ IsDotAtom(DomainPart(s))
    /\ \E i \in 1..Len(DomainPart(s)) : DomainPart(s)[i] = "."

\* The value EmailStr hands to the handler: local part kept, domain
\* lower-cased.
Normalize(s) ==
    IF Cardinality(AtPositions(s)) # 1 THEN s
    ELSE LocalPart(s) \o <<"@">> \o [i \in 1..Len(DomainPart(s)) |-> Lower(DomainPart(s)[i])]

\* UserIn: name is any string, email an EmailStr.
UserIn_valid(body) == body.wellformed /\ IsEmail(body.email)

\* UserOut (response_model): the row is validated again on the way out.
UserOut_valid(row) == row.id \in Int /\ IsEmail(row.email)

UserOut(row) == [id |-> row.id, name |-> row.name, email |-> Normalize(row.email)]

------------------------------------------------------------------------------
\* The users table and the five statements.

Ids(u) == {r.id : r \in u}

ReuseLastId(seq) == IF seq = 0 THEN 1 ELSE seq

\* nextval of the sequence behind users.id
NextVal(seq) == seq + 1

SelectById(u, id) == {r \in u : r.id = id}

InsertReturning(u, id, n, e) == u \cup {[id |-> id, name |-> n, email |-> e]}

UpdateNameOnly(u, id, n, e) ==
    {IF r.id = id THEN [id |-> r.id, name |-> n, email |-> r.email] ELSE r : r \in u}

UpdateOrInsert(u, id, n, e) ==
    IF id \in Ids(u)
    THEN {IF r.id = id THEN [id |-> r.id, name |-> n, email |-> e] ELSE r : r \in u}
    ELSE u \cup {[id |-> id, name |-> n, email |-> e]}

UpdateReturning(u, id, n, e) ==
    {IF r.id = id THEN [id |-> r.id, name |-> n, email |-> e] ELSE r : r \in u}

DeleteEveryRow(u, id) == IF id \in Ids(u) THEN {} ELSE u

DeleteWhere(u, id) == {r \in u : r.id # id}

RECURSIVE Descending(_)
Descending(u) ==
    IF u = {} THEN <<>>
    ELSE LET r == CHOOSE x \in u : \A y \in u : y.id <= x.id
         IN <<r>> \o Descending(u \ {r})

\* SELECT id, name, email FROM users ORDER BY id
RECURSIVE SelectOrderById(_)
SelectOrderById(u) ==
    IF u = {} THEN <<>>
    ELSE LET r == CHOOSE x \in u : \A y \in u : x.id <= y.id
         IN <<r>> \o SelectOrderById(u \ {r})

CommitLost(committed, pending) == committed

\* s.commit(): the session's pending table becomes the committed one.
Commit(committed, pending) == pending

RollbackKeeps(committed, pending) == pending

\* s.rollback(), and the rollback of a session closed without a commit.
Rollback(committed, pending) == committed

------------------------------------------------------------------------------
\* Responses.

NoCors == [acao |-> None, acac |-> None]

Response(status, kind, rows, msg) ==
    [status |-> status, kind |-> kind, rows |-> rows, msg |-> msg, cors |-> NoCors]

NoResp == Response(0, "none", <<>>, <<>>)

Trace(handler, sql, commit, rollback) ==
    [handler |-> handler, sql |-> sql, commit |-> commit, rollback |-> rollback]

NoTrace == Trace("none", 0, FALSE, FALSE)

\* The result of a step of an exchange.  done: the response was sent, and
\* users, id_seq, resp and trace are the committed table, the sequence, the
\* response and the trace.  Not done: the statement has returned and the
\* session stands in front of s.commit(); session describes it.
Outcome(u, seq, r, t) ==
    [done |-> TRUE, users |-> u, id_seq |-> seq, resp |-> r, trace |-> t,
     session |-> [method |-> "none", user_id |-> 0, key |-> None, origin |-> None,
                  body |-> NoBody, id |-> 0]]

HTTPException(status, msg) == Response(status, "detail", <<>>, msg)

ValidationError == Response(422, "validation_error", <<>>, <<>>)

InternalServerError == Response(500, "text", <<>>, <<"Internal Server Error">>)

\* response_model=list[UserOut] / UserOut
Serialize(status, kind, rows) ==
    IF \A i \in 1..Len(rows) : UserOut_valid(rows[i])
    THEN Response(status, kind, [i \in 1..Len(rows) |-> UserOut(rows[i])], <<>>)
    ELSE InternalServerError

------------------------------------------------------------------------------
\* Middleware.  The guard is registered after CORSMiddleware, so it is the
\* outer of the two: a request it answers never enters CORSMiddleware.

Truthy(v) == v \notin {None, ""}

AuthPasses(key) == ~(Truthy(API_KEY) /\ key # API_KEY)

\* Line 30 evaluates the name fastapi, which the imports of lines 2-3 do
\* not bind: NameError, answered by the server-error layer.
GuardReject == InternalServerError

AllowAllOrigins == \E i \in 1..Len(ALLOWED) : ALLOWED[i] = "*"

IsAllowedOrigin(origin) ==
    AllowAllOrigins \/ \E i \in 1..Len(ALLOWED) : ALLOWED[i] = origin

\* CORSMiddleware on an ordinary response: nothing without an Origin
\* header; otherwise allow-credentials, and allow-origin "*" or the
\* matched origin.
SimpleCors(origin) ==
    IF origin = None THEN NoCors
    ELSE [acao |-> IF AllowAllOrigins THEN "*"
                   ELSE IF IsAllowedOrigin(origin) THEN origin ELSE None,
          acac |-> "true"]

\* CORSMiddleware on a preflight: answered by the middleware itself.
PreflightResponse(origin) ==
    IF IsAllowedOrigin(origin)
    THEN [Response(200, "text", <<>>, <<"OK">>)
            EXCEPT !.cors = [acao |-> origin, acac |-> "true"]]
    ELSE [Response(400, "text", <<>>, <<"Disallowed CORS origin">>)
            EXCEPT !.cors = [acao |-> None, acac |-> "true"]]

Request(method, path, user_id, key, origin, body, fault) ==
    [method |-> method, path |-> path, user_id |-> user_id, key |-> key,
     origin |-> origin, body |-> body, fault |-> fault]

NoReq == Request("none", "none", 0, None, None, NoBody, "ok")

\* A session whose statement has returned and whose commit is still to
\* come: the request it serves and, for an INSERT, the id RETURNING gave.
Session(r, id) ==
    [method |-> r.method, user_id |-> r.user_id, key |-> r.key,
     origin |-> r.origin, body |-> r.body, id |-> id]

Pending(seq, s) ==
    [Outcome(users, seq, NoResp, NoTrace) EXCEPT !.done = FALSE, !.session = s]

\* The request of a session, with what the store did at its commit.
RequestOf(s, fault) ==
    Request(s.method,
            IF s.method = "POST" THEN "/users" ELSE "/users/{user_id}",
            s.user_id, s.key, s.origin, s.body, fault)

\* CORSMiddleware around the routed handler.  An exception the handler
\* lets through is answered outside of it, by the server-error layer: that
\* 500 carries no cross-origin header.
CORSMiddleware(origin, inner) ==
    IF ~inner.done \/ inner.resp = InternalServerError
    THEN inner
    ELSE [inner EXCEPT !.resp.cors = SimpleCors(origin)]

\* api_key_guard around CORSMiddleware.
api_key_guard(r, inner) ==
    IF ~AuthPasses(r.key)
    THEN Outcome(users, id_seq, GuardReject, NoTrace)
    ELSE CORSMiddleware(r.origin, inner)

\* Request validation in front of a handler that takes a UserIn body.
Validated(body, inner) ==
    IF UserIn_valid(body) THEN inner
    ELSE Outcome(users, id_seq, ValidationError, NoTrace)

------------------------------------------------------------------------------
\* Handlers.  A write handler makes two blocking calls, s.execute(...) and
\* s.commit(); other exchanges are served between the two.  The handler
\* operator is the first call, its _commit companion the second.  Between
\* them the store keeps the row of an UPDATE or DELETE locked, and shows
\* the uncommitted change to nobody else.

health == Outcome(users, id_seq, Response(200, "ok", <<>>, <<>>),
                  Trace("health", 0, FALSE, FALSE))

list_users(fault) ==
    IF fault = "ok"
    THEN Outcome(users, id_seq, Serialize(200, "users", SelectOrderById(users)),
                 Trace("list_users", 1, FALSE, FALSE))
    ELSE Outcome(users, id_seq, InternalServerError,
                 Trace("list_users", 1, FALSE, FALSE))

InsertFailed(cause) == HTTPException(400, <<"insert failed: ", cause>>)

\* Whether a failed INSERT uses up the id depends on the store and on the
\* cause: consumed is either.
create_user(r, consumed) ==
    IF r.fault = "statement"
    THEN Outcome(Rollback(users, users),
                 IF consumed THEN NextVal(id_seq) ELSE id_seq,
                 InsertFailed("statement"),
                 Trace("create_user", 1, FALSE, TRUE))
    ELSE Pending(NextVal(id_seq), Session(r, NextVal(id_seq)))

create_user_commit(s, fault, consumed) ==
    LET pending == InsertReturning(users, s.id, s.body.name, Normalize(s.body.email))
        row == CHOOSE x \in SelectById(pending, s.id) : TRUE
    IN IF fault = "ok"
       THEN Outcome(Commit(users, pending), id_seq, Serialize(201, "user", <<row>>),
                    Trace("create_user", 1, TRUE, FALSE))
       ELSE Outcome(Rollback(users, pending),
                    IF ~consumed /\ s.id = id_seq THEN id_seq - 1 ELSE id_seq,
                    InsertFailed("commit"),
                    Trace("create_user", 1, FALSE, TRUE))

get_user(user_id, fault) ==
    LET rows == SelectById(users, user_id)
    IN IF fault # "ok"
       THEN Outcome(users, id_seq, InternalServerError,
                    Trace("get_user", 1, FALSE, FALSE))
       ELSE IF rows = {}
       THEN Outcome(users, id_seq, HTTPException(404, <<"not found">>),
                    Trace("get_user", 1, FALSE, FALSE))
       ELSE Outcome(users, id_seq,
                    Serialize(200, "user", <<CHOOSE x \in rows : TRUE>>),
                    Trace("get_user", 1, FALSE, FALSE))

update_user(r) ==
    LET pending == UpdateReturning(users, r.user_id, r.body.name, Normalize(r.body.email))
        rows == SelectById(pending, r.user_id)
    IN IF r.fault = "statement"
       THEN Outcome(users, id_seq, InternalServerError,
                    Trace("update_user", 1, FALSE, FALSE))
       ELSE IF rows = {}
       THEN Outcome(Rollback(users, pending), id_seq,
                    HTTPException(404, <<"not found">>),
                    Trace("update_user", 1, FALSE, FALSE))
       ELSE Pending(id_seq, Session(r, r.user_id))

update_user_commit(s, fault) ==
    LET pending == UpdateReturning(users, s.user_id, s.body.name, Normalize(s.body.email))
        rows == SelectById(pending, s.user_id)
    IN IF fault = "ok"
       THEN Outcome(Commit(users, pending), id_seq,
                    Serialize(200, "user", <<CHOOSE x \in rows : TRUE>>),
                    Trace("update_user", 1, TRUE, FALSE))
       ELSE Outcome(Rollback(users, pending), id_seq, InternalServerError,
                    Trace("update_user", 1, FALSE, FALSE))

delete_user(r) ==
    LET pending == DeleteWhere(users, r.user_id)
        rowcount == Cardinality(users) - Cardinality(pending)
    IN IF r.fault = "statement"
       THEN Outcome(users, id_seq, InternalServerError,
                    Trace("delete_user", 1, FALSE, FALSE))
       ELSE IF rowcount = 0
       THEN Outcome(Rollback(users, pending), id_seq,
                    HTTPException(404, <<"not found">>),
                    Trace("delete_user", 1, FALSE, FALSE))
       ELSE Pending(id_seq, Session(r, r.user_id))

delete_user_commit(s, fault) ==
    LET pending == DeleteWhere(users, s.user_id)
    IN IF fault = "ok"
       THEN Outcome(Commit(users, pending), id_seq,
                    Response(204, "empty", <<>>, <<>>),
                    Trace("delete_user", 1, TRUE, FALSE))
       ELSE Outcome(Rollback(users, pending), id_seq, InternalServerError,
                    Trace("delete_user", 1, FALSE, FALSE))

------------------------------------------------------------------------------
\* The state machine.

Init ==
    /\ API_KEY \in {None, "secret"}
    /\ ALLOWED \in {<<"*">>, <<"https://app.example">>}
    /\ users = {}
    /\ id_seq = 0
    /\ sessions = {}
    /\ req = NoReq
    /\ resp = NoResp
    /\ trace = NoTrace
    /\ before = {}

\* The row is locked by a session that has updated or deleted it and not
\* yet committed: another UPDATE or DELETE of it waits.
Locked(id) ==
    \E s \in sessions : s.method \in {"PATCH", "DELETE"} /\ s.user_id = id

\* The response is sent: the exchange is the last one.
Respond(r, o, open) ==
    /\ req' = r
    /\ resp' = o.resp
    /\ trace' = o.trace
    /\ users' = o.users
    /\ id_seq' = o.id_seq
    /\ before' = users
    /\ sessions' = open
    /\ UNCHANGED <<API_KEY, ALLOWED>>

\* The first step of an exchange: answered at once, or left in front of
\* its commit.
Exchange(r, o) ==
    IF o.done
    THEN Respond(r, o, sessions)
    ELSE /\ Cardinality(sessions) < MaxSessions
         /\ sessions' = sessions \cup {o.session}
         /\ id_seq' = o.id_seq
         /\ UNCHANGED <<API_KEY, ALLOWED, users, req, resp, trace, before>>

Health(K, O) ==
    \E k \in K, o \in O :
        LET r == Request("GET", "/health", 0, k, o, NoBody, "ok")
        IN Exchange(r, api_key_guard(r, health))

ListUsers(K, O, F) ==
    \E k \in K, o \in O, f \in F \ {"commit"} :
        LET r == Request("GET", "/users", 0, k, o, NoBody, f)
        IN Exchange(r, api_key_guard(r, list_users(f)))

CreateUser(K, O, B, F) ==
    \E k \in K, o \in O, b \in B, f \in F \ {"commit"}, consumed \in BOOLEAN :
        /\ id_seq < MaxId
        /\ LET r == Request("POST", "/users", 0, k, o, b, f)
           IN Exchange(r, api_key_guard(r, Validated(b, create_user(r, consumed))))

CommitCreate(F) ==
    \E s \in sessions, f \in F \ {"statement"}, consumed \in BOOLEAN :
        /\ s.method = "POST"
        /\ Respond(RequestOf(s, f),
                   CORSMiddleware(s.origin, create_user_commit(s, f, consumed)),
                   sessions \ {s})

GetUser(K, O, F) ==
    \E k \in K, o \in O, id \in PathIds, f \in F \ {"commit"} :
        LET r == Request("GET", "/users/{user_id}", id, k, o, NoBody, f)
        IN Exchange(r, api_key_guard(r, get_user(id, f)))

UpdateUser(K, O, B, F) ==
    \E k \in K, o \in O, id \in PathIds, b \in B, f \in F \ {"commit"} :
        LET r == Request("PATCH", "/users/{user_id}", id, k, o, b, f)
        IN /\ (AuthPasses(k) /\ UserIn_valid(b) /\ f = "ok") => ~Locked(id)
           /\ Exchange(r, api_key_guard(r, Validated(b, update_user(r))))

CommitUpdate(F) ==
    \E s \in sessions, f \in F \ {"statement"} :
        /\ s.method = "PATCH"
        /\ Respond(RequestOf(s, f),
                   CORSMiddleware(s.origin, update_user_commit(s, f)),
                   sessions \ {s})

DeleteUser(K, O, F) ==
    \E k \in K, o \in O, id \in PathIds, f \in F \ {"commit"} :
        LET r == Request("DELETE", "/users/{user_id}", id, k, o, NoBody, f)
        IN /\ (AuthPasses(k) /\ f = "ok") => ~Locked(id)
           /\ Exchange(r, api_key_guard(r, delete_user(r)))

CommitDelete(F) ==
    \E s \in sessions, f \in F \ {"statement"} :
        /\ s.method = "DELETE"
        /\ Respond(RequestOf(s, f),
                   CORSMiddleware(s.origin, delete_user_commit(s, f)),
                   sessions \ {s})

\* A browser's preflight: OPTIONS with Origin and
\* Access-Control-Request-Method; browsers send it without custom headers.
Preflight(K, O) ==
    \E k \in K, o \in O \ {None} :
        LET r == Request("OPTIONS", "/users", 0, k, o, NoBody, "ok")
        IN Exchange(r, IF AuthPasses(k)
                       THEN Outcome(users, id_seq, PreflightResponse(o), NoTrace)
                       ELSE Outcome(users, id_seq, GuardReject, NoTrace))

\* Spec: the data operations in full (every body, every store fault), sent
\* by a client that presents the configured key from one origin, with
\* ALLOWED_ORIGINS left at its default.
ClientKeys == {API_KEY}

ClientOrigins == {"https://app.example"}

Next ==
    \/ Health(ClientKeys, ClientOrigins)
    \/ ListUsers(ClientKeys, ClientOrigins, Faults)
    \/ CreateUser(ClientKeys, ClientOrigins, Bodies, Faults)
    \/ CommitCreate(Faults)
    \/ GetUser(ClientKeys, ClientOrigins, Faults)
    \/ UpdateUser(ClientKeys, ClientOrigins, Bodies, Faults)
    \/ CommitUpdate(Faults)
    \/ DeleteUser(ClientKeys, ClientOrigins, Faults)
    \/ CommitDelete(Faults)
    \/ Preflight(ClientKeys, ClientOrigins)

InitClient == Init /\ ALLOWED = <<"*">>

Spec == InitClient /\ [][Next]_vars

\* SpecGate: the middleware in full (every key, every origin) in front of
\* every route, with API_KEY set, one valid and one malformed body and a
\* store that does not fail.
GateBodies ==
    { [wellformed |-> TRUE, name |-> "Ada", email |-> <<"a", "@", "b", ".", "c">>],
      Malformed }

NextGate ==
    \/ Health(Keys, Origins)
    \/ ListUsers(Keys, Origins, {"ok"})
    \/ CreateUser(Keys, Origins, GateBodies, {"ok"})
    \/ CommitCreate({"ok"})
    \/ GetUser(Keys, Origins, {"ok"})
    \/ UpdateUser(Keys, Origins, GateBodies, {"ok"})
    \/ CommitUpdate({"ok"})
    \/ DeleteUser(Keys, Origins, {"ok"})
    \/ CommitDelete({"ok"})
    \/ Preflight(Keys, Origins)

InitGate == Init /\ API_KEY = "secret"

SpecGate == InitGate /\ [][NextGate]_vars

------------------------------------------------------------------------------
\* Properties.  They read the last exchange (req, resp, trace), the table
\* before it (before) and the table after it (users).

Sent(method, path) == req.method = method /\ req.path = path

\* The request got past api_key_guard.
Admitted == AuthPasses(req.key)

\* An address in the standard grammar, over the characters the inputs use:
\* one "@", a non-empty local part, a domain of at least two labels, no
\* label empty.
SyntacticallyValid(s) ==
    \E i \in 2..(Len(s) - 1) :
        /\ s[i] = "@"
        /\ \A j \in 1..Len(s) : s[j] = "@" => j = i
        /\ \E j \in (i + 1)..Len(s) : s[j] = "."
        /\ \A j \in 1..Len(s) :
              s[j] = "." => /\ j \notin {1, i - 1, i + 1, Len(s)}
                            /\ s[j + 1] # "."

ValidBody(b) == b.wellformed /\ SyntacticallyValid(b.email)

\* The address with its domain part in lower case.
DomainLowered(s) ==
    [j \in 1..Len(s) |->
        IF \E i \in 1..(j - 1) : s[i] = "@" THEN Lower(s[j]) ELSE s[j]]

\* C1: with a key configured, a request whose x-api-key is absent or wrong
\* is answered 401 {"error": "unauthorized"} and reaches neither a handler
\* nor the store; with the right key it is not turned away.
C1_Unauthorized ==
    (Truthy(API_KEY) /\ req.method # "none") =>
        /\ req.key # API_KEY =>
              /\ resp.status = 401
              /\ resp.msg = <<"unauthorized">>
              /\ trace = NoTrace
              /\ users = before
        /\ req.key = API_KEY => resp.status \notin {401, 500}

\* C2: every response to a request that names an Origin carries the
\* cross-origin headers of the configured origin set, whatever the gate
\* decided: allow-credentials, and allow-origin for a permitted origin.
C2_CorsOnEveryResponse ==
    (req.method # "none" /\ req.origin # None) =>
        /\ resp.cors.acac = "true"
        /\ IsAllowedOrigin(req.origin) => resp.cors.acao \in {"*", req.origin}

\* C3 as stated: a successful POST /users returns 201 with a fresh integer
\* id and the submitted name and email, committed.
C3_SubmittedValues ==
    (Sent("POST", "/users") /\ resp.status = 201) =>
        /\ Len(resp.rows) = 1
        /\ resp.rows[1].id \in Nat \ Ids(before)
        /\ resp.rows[1].name = req.body.name
        /\ resp.rows[1].email = req.body.email
        /\ users = before \cup {resp.rows[1]}

\* C3 amended: a successful POST /users returns 201 with a fresh integer id,
\* the submitted name and the submitted email with its domain in lower
\* case, committed; a row stays as it is until a PATCH or DELETE of its id;
\* GET /users/{id} of a stored id returns 200 with that row.  So a later
\* GET returns the name and email of the 201 record.
C3_RoundTrip ==
    /\ (Sent("POST", "/users") /\ resp.status = 201) =>
          /\ Len(resp.rows) = 1
          /\ resp.rows[1].id \in Nat \ Ids(before)
          /\ resp.rows[1].name = req.body.name
          /\ resp.rows[1].email = DomainLowered(req.body.email)
          /\ trace.commit
          /\ users = before \cup {resp.rows[1]}
          /\ get_user(resp.rows[1].id, "ok").resp.status = 200
          /\ get_user(resp.rows[1].id, "ok").resp.rows = resp.rows
    /\ \A r \in before :
          ~(req.method \in {"PATCH", "DELETE"} /\ req.user_id = r.id) => r \in users
    /\ (Sent("GET", "/users/{user_id}") /\ Admitted /\ req.fault = "ok") =>
          \A r \in users : r.id = req.user_id =>
              resp.status = 200 /\ resp.rows = <<r>>

\* A GET that returns a record created with a mixed-case domain.
C3_Witness ==
    /\ Sent("GET", "/users/{user_id}")
    /\ resp.status = 200
    /\ resp.rows[1].email = <<"A", "@", "b", ".", "c">>
    /\ resp.rows[1].name = ""

\* C4: PATCH /users/{id} of a stored id with a valid body (the store
\* running the statement) replaces name and email of that row and no other,
\* returns 200 with the path id, and commits: a GET then returns the new
\* values.
C4_UpdateOverwrites ==
    (/\ Sent("PATCH", "/users/{user_id}")
     /\ Admitted
     /\ ValidBody(req.body)
     /\ req.fault = "ok"
     /\ req.user_id \in Ids(before)) =>
        LET new == [id |-> req.user_id, name |-> req.body.name,
                    email |-> DomainLowered(req.body.email)]
        IN /\ resp.status = 200
           /\ resp.rows = <<new>>
           /\ trace.commit
           /\ users = {r \in before : r.id # req.user_id} \cup {new}
           /\ get_user(req.user_id, "ok").resp.status = 200
           /\ get_user(req.user_id, "ok").resp.rows = <<new>>

\* A PATCH that changed both fields of one of two rows.
C4_Witness ==
    /\ Sent("PATCH", "/users/{user_id}")
    /\ resp.status = 200
    /\ Cardinality(before) = 2
    /\ \E old \in before :
          /\ old.id = req.user_id
          /\ old.name # resp.rows[1].name
          /\ old.email # resp.rows[1].email

\* C5: DELETE /users/{id} of a stored id (the store running the statement)
\* returns 204 with an empty body and commits the removal of that row alone:
\* GET of the id is then 404 and GET /users returns every other row as it
\* was.
C5_DeleteOne ==
    (/\ Sent("DELETE", "/users/{user_id}")
     /\ Admitted
     /\ req.fault = "ok"
     /\ req.user_id \in Ids(before)) =>
        /\ resp.status = 204
        /\ resp.kind = "empty" /\ resp.rows = <<>> /\ resp.msg = <<>>
        /\ trace.commit
        /\ users = {r \in before : r.id # req.user_id}
        /\ get_user(req.user_id, "ok").resp.status = 404
        /\ LET listed == list_users("ok").resp.rows
           IN {listed[i] : i \in 1..Len(listed)} = {r \in before : r.id # req.user_id}

\* A DELETE that removed one of two rows.
C5_Witness ==
    /\ Sent("DELETE", "/users/{user_id}")
    /\ resp.status = 204
    /\ Cardinality(before) = 2
    /\ Cardinality(users) = 1

\* C6: PATCH (with a valid body) or DELETE of an id no row has returns 404
\* "not found", commits nothing and leaves the table as it was.
C6_NotFound ==
    (/\ req.method \in {"PATCH", "DELETE"}
     /\ Admitted
     /\ req.method = "PATCH" => ValidBody(req.body)
     /\ req.fault # "statement"
     /\ req.user_id \notin Ids(before)) =>
        /\ resp.status = 404
        /\ resp.msg = <<"not found">>
        /\ ~trace.commit
        /\ users = before

\* A PATCH of a missing id against a table that holds another row.
C6_Witness ==
    /\ Sent("PATCH", "/users/{user_id}")
    /\ resp.status = 404
    /\ before # {}
    /\ trace.handler = "update_user"

\* C7: when the INSERT or its commit raises, create_user rolls back and
\* answers 400 with "insert failed: " followed by the cause, and the table
\* is as it was.
C7_InsertFailure ==
    (/\ Sent("POST", "/users")
     /\ Admitted
     /\ ValidBody(req.body)
     /\ req.fault # "ok") =>
        /\ trace.handler = "create_user"
        /\ trace.rollback
        /\ ~trace.commit
        /\ resp.status = 400
        /\ Len(resp.msg) = 2
        /\ resp.msg[1] = "insert failed: "
        /\ users = before

\* A commit that raised after the INSERT ran, on a table with a row in it.
C7_Witness ==
    /\ Sent("POST", "/users")
    /\ req.fault = "commit"
    /\ resp.status = 400
    /\ before # {}

\* C8: a POST /users or PATCH /users/{id} whose body is malformed or whose
\* email is not a valid address is answered with a validation error before
\* the handler runs: no statement is executed and the table is as it was.
C8_InvalidRejected ==
    (/\ req.method \in {"POST", "PATCH"}
     /\ Admitted
     /\ ~ValidBody(req.body)) =>
        /\ resp.status = 422
        /\ resp.kind = "validation_error"
        /\ trace = NoTrace
        /\ users = before

\* A PATCH with an invalid address aimed at a stored row.
C8_Witness ==
    /\ Sent("PATCH", "/users/{user_id}")
    /\ req.body.wellformed
    /\ ~SyntacticallyValid(req.body.email)
    /\ req.user_id \in Ids(users)
    /\ resp.status = 422

\* C9 as stated: every committed row has a unique id, a name that is present
\* and not empty, and a valid email.
C9_NonEmptyNames ==
    /\ \A r \in users : r.name # "" /\ SyntacticallyValid(r.email)
    /\ \A r1, r2 \in users : r1.id = r2.id => r1 = r2

\* C9 amended: every committed row has a unique id, a name that is present
\* (the empty string included) and a valid email; ids enter the table only
\* as the fresh id of a create and leave it only by a delete of that id, so
\* an update keeps the id of its row.
C9_StoredUsers ==
    /\ \A r \in users :
          /\ DOMAIN r = {"id", "name", "email"}
          /\ r.name \in Names
          /\ r.id \in 1..id_seq
          /\ SyntacticallyValid(r.email)
    /\ \A r1, r2 \in users : r1.id = r2.id => r1 = r2
    /\ \/ Ids(users) = Ids(before)
       \/ /\ Sent("POST", "/users")
          /\ resp.status = 201
          /\ Ids(users) \ Ids(before) = {resp.rows[1].id}
          /\ Ids(before) \subseteq Ids(users)
       \/ /\ Sent("DELETE", "/users/{user_id}")
          /\ Ids(users) = Ids(before) \ {req.user_id}

\* An update answered while the row with id 2, of the empty name, is
\* committed and the INSERT that was given id 1 is not.
C9_Witness ==
    /\ Sent("PATCH", "/users/{user_id}")
    /\ resp.status = 200
    /\ \E r \in users : r.id = 2 /\ r.name = ""
    /\ \E s \in sessions : s.method = "POST" /\ s.id = 1

\* C10: GET /users (the store running the statement) returns 200 with
\* exactly the committed rows, each once, in strictly ascending id order;
\* the empty array on an empty table.
C10_ListOrdered ==
    (Sent("GET", "/users") /\ Admitted /\ req.fault = "ok") =>
        /\ resp.status = 200
        /\ resp.kind = "users"
        /\ Len(resp.rows) = Cardinality(users)
        /\ {resp.rows[i] : i \in 1..Len(resp.rows)} = users
        /\ \A i \in 1..(Len(resp.rows) - 1) : resp.rows[i].id < resp.rows[i + 1].id
        /\ users = {} => resp.rows = <<>>
        /\ users = before

\* A list that returns two rows.
C10_Witness ==
    /\ Sent("GET", "/users")
    /\ resp.status = 200
    /\ Len(resp.rows) = 2

====
